---- MODULE Spec2Model ----
(***************************************************************************)
(* Model of the emerald-ash-borer forest simulation of                     *)
(* Mesa_invasive_species_practice.ipynb: the agent class Ash_Tree, the     *)
(* model class Forest and the driver run_model.                            *)
(*                                                                         *)
(* tree_density is a float in the notebook; here it is the exact rational  *)
(* dnum / DensityDen, so that int(width*height*tree_density) is computed   *)
(* without floating-point rounding.                                        *)
(***************************************************************************)
EXTENDS Integers, Naturals, Sequences, FiniteSets, TLC

\* ------------------------------------------------------------------ bounds
MaxWidth == 3
MaxHeight == 3
MaxCells == 6
MaxAgents == 4
MaxSteps == 3
DensityDen == 4
MaxDirect == 1

VARIABLES
    width,       \* run_model argument / Forest.width
    height,      \* run_model argument / Forest.height
    dnum,        \* tree_density = dnum / DensityDen
    max_steps,   \* run_model argument
    pc,          \* position of run_model: "call", "loop", "visit", "returned", "raised"
    error,       \* the exception that left run_model, "none" when there is none
    pos,         \* Ash_Tree.pos, by unique_id
    condition,   \* Ash_Tree.condition, by unique_id
    grid,        \* Forest.grid: the content of every cell (a set of unique_ids)
    running,     \* Forest.running
    history,     \* the rows of Forest.datacollector, in collection order
    i,           \* the loop variable of run_model
    steps,       \* Forest.schedule.steps: completed scheduler passes
    order,       \* the agents the current scheduler pass has still to visit
    startCond,   \* condition of every agent when the current pass began
    visits,      \* how often the current pass has activated every agent
    calls        \* how often Forest.step has been called

vars == <<width, height, dnum, max_steps, pc, error, pos, condition, grid,
          running, history, i, steps, order, startCond, visits, calls>>

params == <<width, height, dnum, max_steps>>

\* ------------------------------------------------------------ pure helpers

\* Python's int() on a float: truncation toward zero.
PyInt(num, den) ==
    IF num >= 0 THEN num \div den ELSE -((-num) \div den)

\* num_of_agents = int(self.width*self.height*self.tree_density)
NumOfAgents_Ceil(w, h, dn) ==
    (w * h * dn + DensityDen - 1) \div DensityDen
NumOfAgents(w, h, dn) ==
    PyInt(w * h * dn, DensityDen)

\* [(x, y) for x in range(self.width) for y in range(self.height)]
AllPossiblePositions(w, h) ==
    {<<x, y>> : x \in 0..(w - 1), y \in 0..(h - 1)}

\* self.random.shuffle(all_possible_positions): every ordering of the list.
RECURSIVE Orderings(_)
Orderings(S) ==
    IF S = {} THEN {<<>>}
    ELSE UNION {{<<e>> \o rest : rest \in Orderings(S \ {e})} : e \in S}

Shuffle_SkipOne(S) ==
    {SubSeq(o, 2, Len(o)) : o \in Orderings(S)}
Shuffle(S) ==
    Orderings(S)

\* if x == 0: condition = "Infected" else: condition = "Healthy"
InitialCondition_Inverted(x) ==
    IF x = 0 THEN "Healthy" ELSE "Infected"
InitialCondition(x) ==
    IF x = 0 THEN "Infected" ELSE "Healthy"

\* The state the constructor builds: the trees, the grid and the exception.
EmptyForest(w, h) ==
    [pos       |-> <<>>,
     condition |-> <<>>,
     grid      |-> [p \in AllPossiblePositions(w, h) |-> {}],
     error     |-> "none"]

\* for i in range(num_of_agents): ... place_agent ... schedule.add
\* all_possible_positions[i] raises IndexError past the end of the list;
\* SingleGrid.place_agent raises when the cell is not empty.
RECURSIVE CreateTrees(_, _, _, _)
CreateTrees(shuffled, n, k, f) ==
    IF k >= n THEN f
    ELSE IF k + 1 > Len(shuffled) THEN [f EXCEPT !.error = "IndexError"]
    ELSE LET p == shuffled[k + 1] IN
         IF p \notin DOMAIN f.grid \/ f.grid[p] # {}
         THEN [f EXCEPT !.error = "CellNotEmpty"]
         ELSE CreateTrees(shuffled, n, k + 1,
                  [pos       |-> (k :> p) @@ f.pos,
                   condition |-> (k :> InitialCondition(p[1])) @@ f.condition,
                   grid      |-> [f.grid EXCEPT ![p] = {k}],
                   error     |-> "none"])

\* mesa.space.SingleGrid(self.width, self.height, torus=False)
Torus_On == TRUE
Torus == FALSE

\* grid.get_neighbors(pos, moore=True, include_center=False): the agents in the
\* up to eight adjacent cells that lie inside the grid.
Neighborhood(p, w, h) ==
    {q \in AllPossiblePositions(w, h) :
        /\ q # p
        /\ LET dx == IF q[1] >= p[1] THEN q[1] - p[1] ELSE p[1] - q[1]
               dy == IF q[2] >= p[2] THEN q[2] - p[2] ELSE p[2] - q[2]
           IN /\ (dx <= 1 \/ (Torus /\ dx = w - 1))
              /\ (dy <= 1 \/ (Torus /\ dy = h - 1))}

GetNeighbors(g, p, w, h) ==
    UNION {g[q] : q \in Neighborhood(p, w, h)}

\* Ash_Tree.maybe_spread_infection, on conditions c, for tree a with neighbours nb
MaybeSpreadInfection_NoDeath(c, a, nb) ==
    IF c[a] = "Infected"
    THEN [t \in DOMAIN c |->
             IF t \in nb /\ c[t] = "Healthy" THEN "Infected" ELSE c[t]]
    ELSE c
MaybeSpreadInfection_Reinfect(c, a, nb) ==
    IF c[a] = "Infected"
    THEN [t \in DOMAIN c |->
             IF t = a THEN "Dead"
             ELSE IF t \in nb /\ c[t] # "Infected" THEN "Infected"
             ELSE c[t]]
    ELSE c
MaybeSpreadInfection_RemoveDead(c, a, nb) ==
    IF c[a] = "Infected"
    THEN [t \in DOMAIN c \ {a} |->
             IF t \in nb /\ c[t] = "Healthy" THEN "Infected" ELSE c[t]]
    ELSE c
MaybeSpreadInfection_FirstOnly(c, a, nb) ==
    IF c[a] = "Infected"
    THEN LET healthy == {t \in nb : c[t] = "Healthy"} IN
         [t \in DOMAIN c |->
             IF t = a THEN "Dead"
             ELSE IF t \in healthy /\ \A u \in healthy : t <= u THEN "Infected"
             ELSE c[t]]
    ELSE c
MaybeSpreadInfection(c, a, nb) ==
    IF c[a] = "Infected"
    THEN [t \in DOMAIN c |->
             IF t = a THEN "Dead"
             ELSE IF t \in nb /\ c[t] = "Healthy" THEN "Infected"
             ELSE c[t]]
    ELSE c

\* Forest.count_type
CountType_OffByOne(c, tree_condition) ==
    Cardinality({t \in DOMAIN c : t # 0 /\ c[t] = tree_condition})
CountType(c, tree_condition) ==
    Cardinality({t \in DOMAIN c : c[t] = tree_condition})

\* self.datacollector.collect(self): one row of the three model reporters
Collect(c) ==
    [Healthy  |-> CountType(c, "Healthy"),
     Infected |-> CountType(c, "Infected"),
     Dead     |-> CountType(c, "Dead")]

\* if self.count_type(self, "Infected") == 0: self.running = False
RunningAfterStep_Never(c, r) ==
    r
RunningAfterStep(c, r) ==
    IF CountType(c, "Infected") = 0 THEN FALSE ELSE r

\* for i in range(max_steps): if not model.running: break
LoopContinues_IgnoreRunning(k, ms, r) ==
    k < ms
LoopContinues(k, ms, r) ==
    k < ms /\ r

\* ------------------------------------------------------------------- state

Init ==
    /\ width \in 1..MaxWidth
    /\ height \in 1..MaxHeight
    /\ dnum \in (-1)..(DensityDen + 1)
    /\ max_steps \in 0..MaxSteps
    /\ width * height <= MaxCells
    /\ \/ NumOfAgents(width, height, dnum) <= MaxAgents
       \/ NumOfAgents(width, height, dnum) > width * height
    /\ pc = "call"
    /\ error = "none"
    /\ pos = <<>>
    /\ condition = <<>>
    /\ grid = <<>>
    /\ running = TRUE
    /\ history = <<>>
    /\ i = 0
    /\ steps = 0
    /\ order = <<>>
    /\ startCond = <<>>
    /\ visits = <<>>
    /\ calls = 0

\* model = Forest(width, height, tree_density)
ForestInit ==
    /\ pc = "call"
    /\ \E shuffled \in Shuffle(AllPossiblePositions(width, height)) :
         LET f == CreateTrees(shuffled, NumOfAgents(width, height, dnum), 0,
                              EmptyForest(width, height))
         IN /\ pos' = f.pos
            /\ condition' = f.condition
            /\ grid' = f.grid
            /\ error' = f.error
            /\ pc' = IF f.error = "none" THEN "loop" ELSE "raised"
    /\ running' = TRUE
    /\ UNCHANGED <<params, history, i, steps, order, startCond, visits, calls>>

\* An iteration of run_model's loop enters model.step(); schedule.step()
\* (RandomActivation) draws a fresh random order over all agents.
BeginStep ==
    /\ pc = "loop"
    /\ LoopContinues(i, max_steps, running)
    /\ \E o \in Shuffle(DOMAIN condition) : order' = o
    /\ startCond' = condition
    /\ visits' = [a \in DOMAIN condition |-> 0]
    /\ calls' = calls + 1
    /\ pc' = "visit"
    /\ UNCHANGED <<params, error, pos, condition, grid, running, history, i, steps>>

\* The scheduler activates the next agent of the pass: Ash_Tree.step()
AgentStep ==
    /\ pc = "visit"
    /\ order # <<>>
    /\ LET a == Head(order) IN
         /\ condition' = MaybeSpreadInfection(condition, a,
                             GetNeighbors(grid, pos[a], width, height))
         /\ visits' = [visits EXCEPT ![a] = @ + 1]
    /\ order' = Tail(order)
    /\ UNCHANGED <<params, pc, error, pos, grid, running, history, i, steps,
                   startCond, calls>>

\* The pass is over: the rest of Forest.step(), and the loop's next i.
EndStep ==
    /\ pc = "visit"
    /\ order = <<>>
    /\ steps' = steps + 1
    /\ history' = Append(history, Collect(condition))
    /\ running' = RunningAfterStep(condition, running)
    /\ i' = i + 1
    /\ pc' = "loop"
    /\ UNCHANGED <<params, error, pos, condition, grid, order, startCond, visits, calls>>

\* The loop ends (range exhausted, or break): return the collected rows.
Return ==
    /\ pc = "loop"
    /\ ~LoopContinues(i, max_steps, running)
    /\ pc' = "returned"
    /\ UNCHANGED <<params, error, pos, condition, grid, running, history, i, steps,
                   order, startCond, visits, calls>>

Next ==
    \/ ForestInit
    \/ BeginStep
    \/ AgentStep
    \/ EndStep
    \/ Return

Spec == Init /\ [][Next]_vars

\* ------------------------------------ Forest.step called by another caller

\* Forest.step starts with self.schedule.step(): it does not test self.running.
StepEnters_Guarded(r) ==
    r
StepEnters(r) ==
    TRUE

\* model.step() called directly on the model run_model has finished with.
DirectBegin ==
    /\ pc = "returned"
    /\ calls < i + MaxDirect
    /\ calls' = calls + 1
    /\ IF StepEnters(running)
       THEN /\ \E o \in Shuffle(DOMAIN condition) : order' = o
            /\ startCond' = condition
            /\ visits' = [a \in DOMAIN condition |-> 0]
            /\ pc' = "direct"
       ELSE UNCHANGED <<order, startCond, visits, pc>>
    /\ UNCHANGED <<params, error, pos, condition, grid, running, history, i, steps>>

\* Ash_Tree.step() within the direct call
DirectAgentStep ==
    /\ pc = "direct"
    /\ order # <<>>
    /\ LET a == Head(order) IN
         /\ condition' = MaybeSpreadInfection(condition, a,
                             GetNeighbors(grid, pos[a], width, height))
         /\ visits' = [visits EXCEPT ![a] = @ + 1]
    /\ order' = Tail(order)
    /\ UNCHANGED <<params, pc, error, pos, grid, running, history, i, steps,
                   startCond, calls>>

\* The rest of Forest.step() within the direct call
DirectEnd ==
    /\ pc = "direct"
    /\ order = <<>>
    /\ steps' = steps + 1
    /\ history' = Append(history, Collect(condition))
    /\ running' = RunningAfterStep(condition, running)
    /\ pc' = "returned"
    /\ UNCHANGED <<params, error, pos, condition, grid, order, startCond, visits,
                   calls, i>>

NextDirect ==
    \/ Next
    \/ DirectBegin
    \/ DirectAgentStep
    \/ DirectEnd

SpecDirect == Init /\ [][NextDirect]_vars

\* ------------------------------------------------------------ vocabulary

Agents == DOMAIN condition

Conditions == {"Healthy", "Infected", "Dead"}

Constructed == pc \in {"loop", "visit", "returned"}

ValidConfiguration ==
    /\ width > 0
    /\ height > 0
    /\ dnum >= 0
    /\ dnum <= DensityDen
    /\ max_steps > 0

Visited == Agents \ {order[k] : k \in 1..Len(order)}

Last(h) == h[Len(h)]

\* ------------------------------------------------------------------ claims

\* C1: every recorded history entry satisfies Healthy + Infected + Dead = the
\* number of agents created at initialization, and every agent is in exactly
\* one of the three conditions.
C1_CountsSumToTotal ==
    /\ \A a \in Agents : condition[a] \in Conditions
    /\ \A k \in 1..Len(history) :
          /\ history[k].Healthy + history[k].Infected + history[k].Dead
                = Cardinality(Agents)
          /\ Cardinality(Agents) = Cardinality(DOMAIN pos)
          /\ Cardinality(Agents) =
                (IF NumOfAgents(width, height, dnum) > 0
                 THEN NumOfAgents(width, height, dnum) ELSE 0)

C1_Witness ==
    /\ Len(history) >= 2
    /\ history[1].Healthy > 0
    /\ history[1].Infected > 0
    /\ history[1].Dead > 0

\* C2: across every transition an agent's condition stays the same or moves
\* Healthy -> Infected or Infected -> Dead; a Dead agent never changes again.
C2_ForwardOnly ==
    [][\A a \in Agents :
          /\ a \in DOMAIN condition'
          /\ \/ condition'[a] = condition[a]
             \/ condition[a] = "Healthy" /\ condition'[a] = "Infected"
             \/ condition[a] = "Infected" /\ condition'[a] = "Dead"]_vars

\* An Infected agent has acted in this pass next to an agent that was already
\* Dead when the pass began, and that agent is still Dead.
C2_Witness ==
    /\ pc = "visit"
    /\ \E a, b \in Agents :
          /\ startCond[a] = "Dead"
          /\ condition[a] = "Dead"
          /\ b \in GetNeighbors(grid, pos[a], width, height)
          /\ startCond[b] = "Infected"
          /\ condition[b] = "Dead"

\* C3: running is false exactly from the end of the first step whose
\* post-step Infected count is zero; every earlier entry has Infected > 0, and
\* once running is false run_model executes no further step.
C3_RunningState ==
    /\ running <=> (history = <<>> \/ Last(history).Infected > 0)
    /\ \A k \in 1..(Len(history) - 1) : history[k].Infected > 0

C3_NoStepAfterStop ==
    ~running =>
        /\ history' = history
        /\ condition' = condition
        /\ steps' = steps
        /\ pc' # "visit"

C3_StopsAtFirstZero ==
    []C3_RunningState /\ [][C3_NoStepAfterStop]_vars

C3_Witness ==
    /\ pc = "returned"
    /\ ~running
    /\ Len(history) = 2
    /\ Len(history) < max_steps
    /\ history[1].Infected > 0
    /\ history[2].Infected = 0

\* C4: an invalid configuration (non-positive width or height, density
\* outside [0,1], max_steps <= 0) fails with an InvalidConfiguration error
\* before any simulation state is created: it never yields a constructed
\* model, a populated grid or a normally returned history.
C4_InvalidConfigurationRejected ==
    ~ValidConfiguration =>
        /\ pc \in {"call", "raised"}
        /\ pc = "raised" =>
              /\ error = "InvalidConfiguration"
              /\ pos = <<>>
              /\ grid = <<>>
              /\ history = <<>>

C6_SeededAtLeftEdge ==
    (pc = "loop" /\ steps = 0) =>
        \A a \in Agents :
            /\ condition[a] = "Infected" <=> pos[a][1] = 0
            /\ pos[a][1] # 0 => condition[a] = "Healthy"
            /\ condition[a] # "Dead"

C6_Witness ==
    /\ pc = "loop"
    /\ steps = 0
    /\ \E a, b \in Agents :
          /\ pos[a][1] = 0
          /\ condition[a] = "Infected"
          /\ pos[b][1] # 0
          /\ condition[b] = "Healthy"

\* C7 as stated: an agent that was Healthy when a step began and is infected
\* during it does not act in that step, so it is not Dead while startCond
\* still shows it Healthy.
C7_OneStepLatency ==
    \A a \in DOMAIN startCond :
        startCond[a] = "Healthy" => condition[a] # "Dead"

\* C7 amended: an agent infected during a step acts in that same step when it
\* is visited later in the pass (it infects its Healthy neighbours and becomes
\* Dead); an agent that had already been visited when it was infected stays
\* Infected for the rest of the step and acts in the next one.
C7_VisitOfNewlyInfected ==
    (pc = "visit" /\ order # <<>>) =>
        LET a == Head(order) IN
            (startCond[a] = "Healthy" /\ condition[a] = "Infected") =>
                /\ condition'[a] = "Dead"
                /\ \A n \in GetNeighbors(grid, pos[a], width, height) :
                      condition[n] = "Healthy" => condition'[n] = "Infected"

C7_VisitedStaysInfected ==
    pc = "visit" =>
        \A a \in Visited :
            condition[a] = "Infected" =>
                /\ startCond[a] = "Healthy"
                /\ condition'[a] = "Infected"

C7_ActsIfVisitedAfterInfection ==
    [][C7_VisitOfNewlyInfected /\ C7_VisitedStaysInfected]_vars

\* A newly infected agent has spread the infection and died within the step
\* in which it was infected, while another one, visited before its infection,
\* waits.
C7_Witness ==
    /\ pc = "visit"
    /\ order = <<>>
    /\ \E a, b, c \in Agents :
          /\ startCond[a] = "Healthy"
          /\ condition[a] = "Dead"
          /\ b \in GetNeighbors(grid, pos[a], width, height)
          /\ startCond[b] = "Healthy"
          /\ condition[b] = "Infected"
          /\ startCond[c] = "Infected"

\* C8: the Dead count is non-decreasing along the history.
C8_DeadMonotone ==
    \A k \in 1..(Len(history) - 1) : history[k + 1].Dead >= history[k].Dead

C8_Witness ==
    /\ Len(history) = 3
    /\ history[1].Dead < history[2].Dead
    /\ history[2].Dead < history[3].Dead

\* C9: run_model executes exactly min(max_steps, T) steps, T the first step
\* whose post-step Infected count is zero, and returns one history entry per
\* executed step; when the budget runs out first, running is still true and
\* the last entry has Infected > 0.
C9_StepsExecuted ==
    pc = "returned" =>
        /\ Len(history) = steps
        /\ steps = i
        /\ steps <= (IF max_steps > 0 THEN max_steps ELSE 0)
        /\ \A k \in 1..(Len(history) - 1) : history[k].Infected > 0
        /\ steps < max_steps =>
              (history # <<>> /\ Last(history).Infected = 0 /\ ~running)
        /\ (history # <<>> /\ Last(history).Infected > 0) =>
              (steps = max_steps /\ running)

C9_Witness ==
    /\ pc = "returned"
    /\ max_steps = 2
    /\ steps = 2
    /\ running
    /\ Last(history).Infected > 0

\* The other case of C9: the run stopped at T = 2, before its budget of 3.
C9_WitnessStopped ==
    /\ pc = "returned"
    /\ max_steps = 3
    /\ steps = 2

\* Two agents stand on different cells that differ by at most 1 in x and in
\* y, without wraparound.
Adjacent(a, b) ==
    /\ pos[a] # pos[b]
    /\ pos[a][1] - pos[b][1] \in {-1, 0, 1}
    /\ pos[a][2] - pos[b][2] \in {-1, 0, 1}

\* A scheduler pass has been completed and no visit of a later one has begun.
PassDone ==
    \/ pc = "visit" /\ order = <<>>
    \/ pc \in {"loop", "returned"} /\ steps > 0

\* C11: with density 0 and max_steps >= 1 the constructor creates no agent,
\* the first step visits nobody and records (0, 0, 0), running is false from
\* the end of that step, and exactly one step is executed.
C11_ZeroDensity ==
    (dnum = 0 /\ max_steps >= 1) =>
        /\ pc # "raised"
        /\ Agents = {}
        /\ pc = "visit" => order = <<>>
        /\ (pc = "loop" /\ steps = 0) => running
        /\ steps <= 1
        /\ Len(history) = steps
        /\ steps = 1 =>
              /\ history = <<[Healthy |-> 0, Infected |-> 0, Dead |-> 0]>>
              /\ ~running
        /\ pc = "returned" => steps = 1

C11_Witness ==
    /\ dnum = 0
    /\ width * height > 1
    /\ max_steps = 3
    /\ pc = "returned"
    /\ steps = 1
    /\ history = <<[Healthy |-> 0, Infected |-> 0, Dead |-> 0]>>

\* C12: the visit of an Infected agent makes every Healthy agent on an
\* adjacent cell Infected, makes the visited agent Dead and changes no other
\* agent; the visit of a Healthy or Dead agent changes nothing. The visit reads
\* the conditions as earlier visits of the same pass left them.
C12_VisitEffect ==
    [][(pc = "visit" /\ order # <<>>) =>
          LET a == Head(order) IN
              /\ DOMAIN condition' = Agents
              /\ condition[a] = "Infected" =>
                    \A t \in Agents :
                        condition'[t] =
                            IF t = a THEN "Dead"
                            ELSE IF Adjacent(a, t) /\ condition[t] = "Healthy"
                                 THEN "Infected"
                            ELSE condition[t]
              /\ condition[a] # "Infected" => condition' = condition]_vars

\* A visited Infected agent has died and infected two adjacent agents, one of
\* them since visited in the same pass, next to an agent that was already Dead,
\* while an agent that is not adjacent stayed Healthy.
C12_Witness ==
    /\ pc = "visit"
    /\ \E a, n, m \in Agents :
          /\ startCond[a] = "Infected"
          /\ condition[a] = "Dead"
          /\ Adjacent(a, n)
          /\ startCond[n] = "Healthy"
          /\ condition[n] = "Dead"
          /\ ~Adjacent(a, m)
          /\ m # a
          /\ condition[m] = "Healthy"

\* C13: every agent that is Infected when a step begins is Dead when the step
\* ends, whatever the visitation order; every agent that is Infected when the
\* counts are collected was Healthy when that step began.
C13_InfectiousOneStep ==
    /\ PassDone =>
          \A a \in Agents :
              /\ startCond[a] = "Infected" => condition[a] = "Dead"
              /\ condition[a] = "Infected" => startCond[a] = "Healthy"
    /\ (pc \in {"loop", "returned"} /\ steps > 0) =>
          Last(history).Infected =
              Cardinality({a \in Agents : startCond[a] = "Healthy"
                                          /\ condition[a] = "Infected"})

C13_Witness ==
    /\ pc = "loop"
    /\ steps = 2
    /\ \E a, b \in Agents :
          /\ startCond[a] = "Infected"
          /\ condition[a] = "Dead"
          /\ startCond[b] = "Healthy"
          /\ condition[b] = "Infected"

\* C14: in every step each agent is activated exactly once, whatever its
\* condition and whatever earlier visits of the pass did to it, and the counts
\* are collected only after all the visits of the pass.
C14_VisitsState ==
    /\ pc = "visit" =>
          /\ DOMAIN visits = Agents
          /\ \A a \in Agents : visits[a] = (IF a \in Visited THEN 1 ELSE 0)
          /\ Cardinality(Agents \ Visited) = Len(order)
    /\ PassDone => \A a \in Agents : visits[a] = 1

C14_CollectAfterVisits ==
    history' # history =>
        /\ \A a \in Agents : visits[a] = 1
        /\ order = <<>>
        /\ condition' = condition

C14_VisitedOncePerStep ==
    []C14_VisitsState /\ [][C14_CollectAfterVisits]_vars

\* A pass is over in which an agent that was already Dead and an agent that
\* was infected earlier in the same pass were both activated once.
C14_Witness ==
    /\ pc = "loop"
    /\ steps = 2
    /\ \E a, b \in Agents :
          /\ startCond[a] = "Dead"
          /\ visits[a] = 1
          /\ startCond[b] = "Healthy"
          /\ condition[b] = "Dead"
          /\ visits[b] = 1

\* C15: an agent becomes Infected only during the visit of an Infected agent
\* on an adjacent cell (at most 1 apart in x and in y, no wraparound, not the
\* same cell); so an agent in the last column is never infected by the visit
\* of an agent in column 0 of a grid more than 2 wide, and likewise for rows.
C15_LocalInfection ==
    [][\A t \in Agents :
          (condition[t] = "Healthy" /\ condition'[t] # "Healthy") =>
              /\ pc = "visit"
              /\ order # <<>>
              /\ condition'[t] = "Infected"
              /\ LET a == Head(order) IN
                    /\ condition[a] = "Infected"
                    /\ Adjacent(a, t)
                    /\ width > 2 => ~(pos[a][1] = 0 /\ pos[t][1] = width - 1)
                    /\ height > 2 => ~(pos[a][2] = 0 /\ pos[t][2] = height - 1)
                    /\ height > 2 => ~(pos[t][2] = 0 /\ pos[a][2] = height - 1)]_vars

\* On a grid 3 wide an Infected agent of column 0 has been visited and died
\* while an agent in the last column is still Healthy at the end of the pass.
C15_Witness ==
    /\ pc = "visit"
    /\ order = <<>>
    /\ width = 3
    /\ \E a, t \in Agents :
          /\ pos[a][1] = 0
          /\ startCond[a] = "Infected"
          /\ condition[a] = "Dead"
          /\ pos[t][1] = width - 1
          /\ condition[t] = "Healthy"

\* The same for rows: on a grid 3 high an Infected agent of row 0 has died and
\* an agent in the last row is still Healthy at the end of the pass.
C15_WitnessRows ==
    /\ pc = "visit"
    /\ order = <<>>
    /\ height = 3
    /\ \E a, t \in Agents :
          /\ pos[a][2] = 0
          /\ startCond[a] = "Infected"
          /\ condition[a] = "Dead"
          /\ pos[t][2] = height - 1
          /\ condition[t] = "Healthy"

\* C16: after construction no transition creates, destroys, moves or
\* re-identifies an agent: the agents, their positions and the content of
\* every cell stay as they are, a Dead agent keeps its cell, and a step changes
\* only conditions, the history and the running flag.
C16_Layout ==
    pc # "call" =>
        /\ pos' = pos
        /\ grid' = grid
        /\ DOMAIN condition' = DOMAIN condition
        /\ DOMAIN condition' = DOMAIN pos
        /\ params' = params
        /\ error' = error
        /\ \A a \in Agents : condition'[a] = "Dead" => grid'[pos'[a]] = {a}

C16_StepsKeepLayout ==
    [][C16_Layout]_vars

\* A run of three steps has ended with a Dead agent still on its cell.
C16_Witness ==
    /\ pc = "returned"
    /\ steps = 3
    /\ \E a \in Agents :
          /\ condition[a] = "Dead"
          /\ grid[pos[a]] = {a}

\* The agents the constructor seeded Infected: those in column 0.
Seeded == {a \in Agents : pos[a][1] = 0}

\* C17 as stated: with at least one seeded agent, the Infected count of the
\* first history entry is strictly less than the number of seeded agents.
C17_FirstInfectedBelowSeeds ==
    (history # <<>> /\ Seeded # {}) =>
        history[1].Infected < Cardinality(Seeded)

\* C17 amended: in the first history entry every seeded agent is counted Dead
\* and the Infected count counts only agents that were not seeded; it is
\* bounded by the number of non-seeded agents, not by the number of seeds.
C17_FirstEntrySeedsDead ==
    history # <<>> =>
        /\ history[1].Dead >= Cardinality(Seeded)
        /\ history[1].Infected <= Cardinality(Agents \ Seeded)
        /\ (steps = 1 /\ pc = "loop") =>
              \A a \in Seeded : condition[a] = "Dead"

\* After step 1 more agents are Infected than were seeded.
C17_Witness ==
    /\ pc = "loop"
    /\ steps = 1
    /\ Seeded # {}
    /\ history[1].Infected > Cardinality(Seeded)
    /\ history[1].Dead = Cardinality(Seeded)

\* max(1, N) for the N agents of the forest
StepBound == IF Cardinality(Agents) > 1 THEN Cardinality(Agents) ELSE 1

\* C18: every step that begins with an Infected agent strictly increases the
\* Dead count, so Infected = 0 is reached after at most max(1, N) steps: no
\* more steps than that are ever executed, and a run whose budget is at least
\* max(1, N) returns finished, not cut off by its budget.
C18_Progress ==
    /\ (history # <<>> /\ Seeded # {}) => history[1].Dead > 0
    /\ \A k \in 1..(Len(history) - 1) :
          history[k].Infected > 0 => history[k + 1].Dead > history[k].Dead
    /\ \A k \in 1..Len(history) :
          (\A j \in 1..(k - 1) : history[j].Infected > 0) =>
              (history[k].Dead >= k \/ history[k].Infected = 0)
    /\ pc # "raised" => steps <= StepBound
    /\ (pc = "returned" /\ max_steps >= StepBound) =>
          /\ ~running
          /\ Last(history).Infected = 0

\* The bound is met: three agents, each step kills one, and the run finishes
\* with its third step.
C18_Witness ==
    /\ pc = "returned"
    /\ Cardinality(Agents) = 3
    /\ steps = 3
    /\ ~running
    /\ history[1].Dead = 1
    /\ history[2].Dead = 2
    /\ history[3].Dead = 3

\* The agents joined to the set S by a chain of adjacent occupied cells.
RECURSIVE Connected(_)
Connected(S) ==
    LET more == S \cup {b \in Agents : \E a \in S : Adjacent(a, b)}
    IN IF more = S THEN S ELSE Connected(more)

\* C19: when a step ends with Infected = 0, the Dead agents are exactly the
\* agents 8-connected through occupied cells to an agent in column 0 and all
\* other agents are Healthy, whatever the visitation orders were; before that,
\* only agents of those components are ever Infected or Dead.
C19_FinalOutcome ==
    /\ \A a \in Agents :
          condition[a] # "Healthy" => a \in Connected(Seeded)
    /\ (pc \in {"loop", "returned"} /\ steps > 0 /\ Last(history).Infected = 0) =>
          /\ \A a \in Agents :
                condition[a] = (IF a \in Connected(Seeded) THEN "Dead" ELSE "Healthy")
          /\ Last(history).Dead = Cardinality(Connected(Seeded))
          /\ Last(history).Healthy = Cardinality(Agents \ Connected(Seeded))

\* A run has finished with a Dead agent outside column 0 and a Healthy agent
\* that no chain of adjacent agents joins to column 0.
C19_Witness ==
    /\ pc = "returned"
    /\ ~running
    /\ \E a, b \in Agents :
          /\ pos[a][1] # 0
          /\ condition[a] = "Dead"
          /\ condition[b] = "Healthy"

\* The number of steps to that outcome depends on the visitation order: the
\* same kind of forest can finish in one step or in three.
C19_WitnessSlow ==
    /\ pc = "returned"
    /\ ~running
    /\ steps = 3
    /\ Cardinality(Connected(Seeded)) = 3

\* C20: Forest.step does not test running: called directly on a finished
\* model (running false, Infected = 0) it changes no agent's condition and
\* leaves running false, but appends one more history entry, equal to the
\* previous one; every call of step appends an entry, and running never
\* changes from false back to true.
C20_EveryCallCollects ==
    /\ pc = "returned" => Len(history) = calls
    /\ (pc = "direct" /\ ~running) =>
          /\ condition = startCond
          /\ Last(history).Infected = 0

C20_FinishedStep ==
    /\ ~running => ~running'
    /\ (pc = "direct" /\ ~running) =>
          /\ condition' = condition
          /\ history' # history => history' = Append(history, Last(history))

C20_DirectStepOnFinished ==
    []C20_EveryCallCollects /\ [][C20_FinishedStep]_vars

\* A direct call on a finished forest, with Healthy and Dead agents, has
\* completed and appended a copy of the last entry.
C20_Witness ==
    /\ pc = "returned"
    /\ ~running
    /\ i >= 1
    /\ calls = i + 1
    /\ Len(history) = i + 1
    /\ history[i + 1] = history[i]
    /\ \E a, b \in Agents : condition[a] = "Healthy" /\ condition[b] = "Dead"

====
